---- MODULE Spec2Model ----
(***************************************************************************)
(* Model of the breadth-first web spider of                                *)
(* scripts/spiders/web_spider_oo.py (class WebSpider).                     *)
(*                                                                         *)
(* A Python str is a sequence of one-character strings; the Python value   *)
(* None is the distinguished value None below.  The web, the file system   *)
(* and the SQL sink are the environment: a fetch answers with any response *)
(* of Responses or raises, files and sink record what the spider wrote.    *)
(***************************************************************************)
EXTENDS FiniteSets, Integers, Sequences, TLC

(***************************************************************************)
(* Bounds of the model.                                                    *)
(***************************************************************************)
MaxPenDepth == 3
MaxListLen == 2
MaxDenyLen == 2
MaxPersists == 2

(***************************************************************************)
(* Python values.                                                          *)
(***************************************************************************)
None == <<"None">>

UpperChars == <<"A","B","C","D","E","F","G","H","I","J","K","L","M",
                "N","O","P","Q","R","S","T","U","V","W","X","Y","Z">>
LowerChars == <<"a","b","c","d","e","f","g","h","i","j","k","l","m",
                "n","o","p","q","r","s","t","u","v","w","x","y","z">>

\* str.lower(), character by character
LowerChar(c) ==
    IF \E i \in DOMAIN UpperChars : UpperChars[i] = c
    THEN LowerChars[CHOOSE i \in DOMAIN UpperChars : UpperChars[i] = c]
    ELSE c

Lower(s) == [i \in DOMAIN s |-> LowerChar(s[i])]

\* str.endswith(suffix)
EndsWith(s, suffix) ==
    /\ Len(suffix) <= Len(s)
    /\ SubSeq(s, Len(s) - Len(suffix) + 1, Len(s)) = suffix

\* the Python test `w in s` for two str values
Contains(s, w) ==
    \E i \in 0..(Len(s) - Len(w)) : SubSeq(s, i + 1, i + Len(w)) = w

\* str.replace(old, new) for one-character old and new
ReplaceChar(s, old, new) == [i \in DOMAIN s |-> IF s[i] = old THEN new ELSE s[i]]

RECURSIVE Concat(_)
Concat(ss) == IF ss = <<>> THEN <<>> ELSE Head(ss) \o Concat(Tail(ss))

\* all sequences over S of length at most n
SeqsUpTo(S, n) == UNION {[1..k -> S] : k \in 0..n}

Range(f) == {f[i] : i \in DOMAIN f}

(***************************************************************************)
(* bind_filter_word_list: the list of substrings used to clean links.      *)
(***************************************************************************)
bind_filter_word_list ==
    << <<"c","a","r","e","e","r">>,
       <<"l","o","g","i","n">>,
       <<"p","a","y">>,
       <<"y","o","u","r">>,
       <<"a","c","c","o","u","n","t">>,
       <<"a","u","t","h">>,
       <<"c","o","n","t","a","c","t">>,
       <<"a","c","t","i","v","a","t","e">>,
       <<"r","e","s","e","r","v","a","t","i","o","n">>,
       <<"b","o","o","k">>,
       <<"t","e","l">>,
       <<"f","a","c","e","b","o","o","k">>,
       <<"i","n","s","t","a","g","r","a","m">>,
       <<"s","u","b","s","c","r","i","b","e">>,
       <<"g","o","o","g","l","e">>,
       <<"l","i","n","k","e","d","i","n">>,
       <<"y","o","u","t","u","b","e">>,
       <<"m","a","i","l">>,
       <<"a","p","p">>,
       <<"A","p","p">> >>

(***************************************************************************)
(* clean_webpage_links: the loop over product(links_list,                  *)
(* filter_word_list), links outermost.  `word not in link` is evaluated    *)
(* first and raises TypeError when link is None.                           *)
(***************************************************************************)
Raised == [raised |-> TRUE, value |-> {}]
Returned(v) == [raised |-> FALSE, value |-> v]

\* the `not` of line 251 is lost
KeepPairWordPresent(link, word) ==
    Contains(link, word) /\ link \notin {None, <<"/">>}

\* the test of lines 251-253 for one (link, word) pair, link a str
KeepPair(link, word) ==
    (~Contains(link, word)) /\ link \notin {None, <<"/">>}

\* the iterations of one link: it is appended once per word that passes
AppendedFor(link, words) ==
    LET passing == {j \in DOMAIN words : KeepPair(link, words[j])}
    IN  [k \in 1..Cardinality(passing) |-> link]

\* `word not in link` never raises
LinkRaisesNever(link) == FALSE

\* `word not in link` of line 251 raises TypeError: None is not iterable
LinkRaises(link) == link = None

RECURSIVE CleanLoop(_, _, _, _)
CleanLoop(links_list, words, i, clean_links) ==
    IF i > Len(links_list) \/ words = <<>> THEN Returned(Range(clean_links))
    ELSE IF LinkRaises(links_list[i]) THEN Raised
    ELSE CleanLoop(links_list, words, i + 1,
                   clean_links \o AppendedFor(links_list[i], words))

clean_webpage_links(links_list, words) == CleanLoop(links_list, words, 1, <<>>)

(***************************************************************************)
(* The environment of a run: the links of the site and what a GET answers. *)
(***************************************************************************)
RootSite == <<"h","t","t","p",":","/","/","a">>
LinkLogin == RootSite \o <<"/","l","o","g","i","n">>
LinkPdf == RootSite \o <<"/","c",".","P","D","F">>
LinkXls == RootSite \o <<"/","d",".","x","l","s">>
LinkXlsx == RootSite \o <<"/","e",".","x","l","s","x">>
LinkAllWords == RootSite \o <<"/">> \o Concat(bind_filter_word_list)
Slash == <<"/">>
SavePath == <<"/","t","m","p","/">>

\* href lists a fetched page can carry (get_all_links_from_page returns
\* every <a> href verbatim, None for an <a> without href)
PageHrefs ==
    { <<>>,
      <<LinkLogin, LinkPdf, LinkLogin>>,
      <<LinkXls, Slash, RootSite>>,
      <<LinkXlsx, LinkAllWords, LinkXls>>,
      <<LinkPdf, None>> }

\* a second site: its root page lists a relative link, a login link and an
\* anchor without href; the spider that crawls it has one filter word
ExampleSite ==
    <<"h","t","t","p",":","/","/","e","x","a","m","p","l","e",".","c","o","m">>
ExampleLogin == ExampleSite \o <<"/","l","o","g","i","n">>
ExampleAbout == <<"/","a","b","o","u","t">>
ExampleHrefs == <<ExampleAbout, ExampleLogin, None>>
ExampleFilterWords == << <<"l","o","g","i","n">> >>

StatusOK == 200
OtherStatuses == {404}

\* what session.get can return: status 200 with a page, or another status
Responses ==
    [status_code : {StatusOK}, hrefs : PageHrefs]
        \cup [status_code : OtherStatuses, hrefs : {<<>>}]

\* what a GET of link can answer
ResponsesOf(link) ==
    IF link = ExampleSite
    THEN {[status_code |-> StatusOK, hrefs |-> ExampleHrefs]}
    ELSE Responses

\* get_all_links_from_page
get_all_links_from_page(site_request) == site_request.hrefs

(***************************************************************************)
(* State of one WebSpider instance and of its run_spider call.             *)
(***************************************************************************)
VARIABLES
    root_site,           \* self.root_site
    pen_depth,           \* self.pen_depth
    indexing_on,         \* self.indexing_on
    filter_word_list,    \* self.filter_word_list
    unique_links_set,    \* self.unique_links_set
    depth,               \* loop variable of run_spider, NoDepth while unbound
    parent_level_links,  \* frontier of the current depth
    child_level_links,   \* children accumulated in the current depth
    pending,             \* links the inner for loop has still to yield
    pc,                  \* position in run_spider
    error,               \* the exception that ended the run, or NoError
    fetch_log,           \* GETs issued, in order, with their outcome
    frontiers,           \* parent_level_links bound at each depth so far
    files,               \* file system: path -> sequence of chunks written
    sink,                \* calls on the SQL engine, in order
    links_list,          \* argument of a stand-alone clean_webpage_links call
    clean_result,        \* its result
    saved_calls,         \* pages persisted so far, over successive runs
    setup_kwargs,        \* keyword arguments of SpiderIndexSQLSetup(...)
    sql_setup_obj,       \* attributes bound on the SpiderIndexSQLSetup instance
    spider_arg           \* what is passed as indexing_definitions_obj

vars == <<root_site, pen_depth, indexing_on, filter_word_list, unique_links_set,
          depth, parent_level_links, child_level_links, pending, pc, error,
          fetch_log, frontiers, files, sink, links_list, clean_result,
          saved_calls, setup_kwargs, sql_setup_obj, spider_arg>>

config == <<root_site, pen_depth, indexing_on, filter_word_list>>
construction == <<saved_calls, setup_kwargs, sql_setup_obj, spider_arg>>
standalone == <<links_list, clean_result, construction>>

NoDepth == -1
NoError == "none"
NoResult == [raised |-> FALSE, value |-> {<<"pending">>}]

NoResponse == [status_code |-> 0, hrefs |-> <<>>]

(***************************************************************************)
(* ContentPersister: generate_output_file_name and the two save methods.   *)
(***************************************************************************)
\* stand-in for hashlib.md5(...).hexdigest(): distinct inputs, distinct digests
Md5(s) == <<"<">> \o s \o <<">">>

generate_output_file_name(webpage, file_type_flag) ==
    LET cleaned_root == ReplaceChar(ReplaceChar(root_site, "\\", "_"), "/", "_")
        unique_url_hash == Md5(root_site \o webpage)
    IN  cleaned_root \o unique_url_hash \o <<".">> \o Lower(file_type_flag)

WriteFile(fs, path, content) ==
    [p \in DOMAIN fs \cup {path} |-> IF p = path THEN content ELSE fs[p]]

\* open(..., 'a'): the header lines and the text go after what the file holds
save_webpage_as_text(fs, web_url, returned_request) ==
    LET save_name == generate_output_file_name(web_url, <<"t","x","t">>)
        path == SavePath \o save_name \o <<".","t","x","t">>
        old == IF path \in DOMAIN fs THEN fs[path] ELSE <<>>
    IN  WriteFile(fs, path,
                  Append(old, [header |-> <<root_site, web_url>>,
                               body |-> returned_request.hrefs]))

\* open(..., 'wb'): the file is truncated first
save_webpage_as_pdf(fs, web_url, returned_request) ==
    LET save_name == generate_output_file_name(web_url, <<"p","d","f">>)
        path == SavePath \o save_name \o <<".","p","d","f">>
    IN  WriteFile(fs, path, <<[header |-> <<>>, body |-> returned_request.hrefs]>>)

(***************************************************************************)
(* IndexSink: the two dataframes and the calls on the SQL engine.          *)
(***************************************************************************)
create_parent_child_dataframe(parent_link, child_links) ==
    {<<pen_depth, parent_link, c>> : c \in child_links}

\* the ids are counted from 1
create_unique_links_df_from_one ==
    LET n == Cardinality(unique_links_set)
    IN  { {<<i, f[i]>> : i \in 1..n} :
            f \in {g \in [1..n -> unique_links_set] : Range(g) = unique_links_set} }

\* list(enumerate(set)): the set's iteration order is not fixed by the
\* language, so every enumeration is a possible dataframe
create_unique_links_df ==
    LET n == Cardinality(unique_links_set)
    IN  { {<<i - 1, f[i]>> : i \in 1..n} :
            f \in {g \in [1..n -> unique_links_set] : Range(g) = unique_links_set} }

SinkCall(flag, rows, parent_link) ==
    [op |-> flag, rows |-> rows, depth |-> depth, parent |-> parent_link]

upload_data_to_sql(log, data_df, flag, parent_link) ==
    Append(log, SinkCall(flag, data_df, parent_link))

dispose(log) == Append(log, SinkCall("dispose", {}, <<>>))

(***************************************************************************)
(* WebSpider.__init__ followed by the entry into run_spider.               *)
(***************************************************************************)
RunInit ==
    /\ \/ /\ root_site = RootSite
          /\ pen_depth \in 1..MaxPenDepth
          /\ filter_word_list = bind_filter_word_list
       \/ /\ root_site = ExampleSite
          /\ pen_depth = 2
          /\ filter_word_list = ExampleFilterWords
    /\ indexing_on \in BOOLEAN
    /\ unique_links_set = {}
    /\ depth = NoDepth
    /\ parent_level_links = {}
    /\ child_level_links = {}
    /\ pending = {}
    /\ pc = "for_depth"
    /\ error = NoError
    /\ fetch_log = <<>>
    /\ frontiers = <<>>
    /\ files = <<>>
    /\ sink = <<>>

\* the variables of the construction and persistence steps, at rest
ConstructionIdle ==
    /\ saved_calls = <<>>
    /\ setup_kwargs = <<>>
    /\ sql_setup_obj = <<>>
    /\ spider_arg = "none"

Init ==
    /\ RunInit
    /\ links_list = <<>>
    /\ clean_result = NoResult
    /\ ConstructionIdle

(***************************************************************************)
(* run_spider, outer loop: for depth in range(self.pen_depth)              *)
(***************************************************************************)
NextDepthValue == IF depth = NoDepth THEN 0 ELSE depth + 1

\* off by one: range(self.pen_depth + 1)
RangeExhaustedOneLate == NextDepthValue > pen_depth

\* range(self.pen_depth) has no further value
RangeExhausted == NextDepthValue >= pen_depth

\* the new frontier keeps the links of the old one
FrontierForKeepsParents(d) ==
    IF d = 0 THEN {root_site} ELSE child_level_links \cup parent_level_links

\* line 88: {self.root_site} if depth == 0 else child_level_links
FrontierFor(d) == IF d = 0 THEN {root_site} ELSE child_level_links

\* lines 87-89: bind depth, the frontier and an empty child set
EnterDepth ==
    /\ pc = "for_depth"
    /\ ~RangeExhausted
    /\ depth' = NextDepthValue
    /\ parent_level_links' = FrontierFor(depth')
    /\ child_level_links' = {}
    /\ pending' = parent_level_links'
    /\ frontiers' = Append(frontiers, parent_level_links')
    /\ pc' = "for_link"
    /\ UNCHANGED <<config, standalone, unique_links_set, error, fetch_log, files, sink>>

\* the range is exhausted: fall through to line 121
ExitDepthLoop ==
    /\ pc = "for_depth"
    /\ RangeExhausted
    /\ pc' = "finish"
    /\ UNCHANGED <<config, standalone, unique_links_set, depth, parent_level_links,
                   child_level_links, pending, error, fetch_log, frontiers, files, sink>>

\* the inner for loop has yielded every link of the frontier
EndOfFrontier ==
    /\ pc = "for_link"
    /\ pending = {}
    /\ pc' = "for_depth"
    /\ UNCHANGED <<config, standalone, unique_links_set, depth, parent_level_links,
                   child_level_links, pending, error, fetch_log, frontiers, files, sink>>

(***************************************************************************)
(* run_spider, one iteration of: for parent_link in parent_level_links     *)
(***************************************************************************)
Yield(parent_link) ==
    /\ pc = "for_link"
    /\ parent_link \in pending
    /\ pending' = pending \ {parent_link}

\* the log of the run: the GET of this iteration, whether it raised, what it
\* returned, and what clean_webpage_links returned for the page if line 112
\* was reached
Fetched(parent_link, raised, site_request, cleaned) ==
    Append(fetch_log, [link |-> parent_link, depth |-> depth,
                       raised |-> raised, response |-> site_request,
                       cleaned |-> cleaned])

NotCleaned == [reached |-> FALSE, raised |-> FALSE, value |-> {}]
Cleaned(result) ==
    [reached |-> TRUE, raised |-> result.raised, value |-> result.value]

\* the two elif branches of lines 103-106 are lost
IsSpreadsheetNever(parent_link) == FALSE

\* lines 101-106: the link ends in xlsx or xls (and not in pdf)
IsSpreadsheet(parent_link) ==
    /\ ~EndsWith(Lower(parent_link), <<"p","d","f">>)
    /\ \/ EndsWith(Lower(parent_link), <<"x","l","s","x">>)
       \/ EndsWith(Lower(parent_link), <<"x","l","s">>)

\* lines 101-108: save the raw file, PDF or text
SaveRawFile(parent_link, site_request) ==
    IF EndsWith(Lower(parent_link), <<"p","d","f">>)
    THEN save_webpage_as_pdf(files, parent_link, site_request)
    ELSE save_webpage_as_text(files, parent_link, site_request)

\* the visited test is lost: every yielded link is fetched
AlreadyCapturedNever(parent_link) == FALSE

\* line 92: parent_link in self.unique_links_set
AlreadyCaptured(parent_link) == parent_link \in unique_links_set

\* the edges are uploaded whether indexing is on or not
IndexEdgesAlways(parent_link, children) ==
    upload_data_to_sql(sink, create_parent_child_dataframe(parent_link, children),
                       "index", parent_link)

\* lines 115-119: record the parent-child relationships when indexing is on
IndexEdges(parent_link, children) ==
    IF indexing_on
    THEN upload_data_to_sql(sink,
                            create_parent_child_dataframe(parent_link, children),
                            "index", parent_link)
    ELSE sink

\* the status test is lost: every response is treated as a page
IsOKAlways(site_request) == TRUE

\* line 97: site_request.status_code != 200 skips the link
IsOK(site_request) == site_request.status_code = StatusOK

\* each parent is indexed with the links of its own page only
EdgeChildrenOwn(accumulated, cleaned) == cleaned

\* lines 117-118: the child links handed to create_parent_child_dataframe
\* are child_level_links, the set accumulated in this depth
EdgeChildren(accumulated, cleaned) == accumulated

\* the exception is swallowed and the loop goes on
PcAfterRaiseSwallowed == "for_link"

\* line 96 is in no try block: an exception of session.get leaves run_spider
PcAfterRaise == "error"

\* lines 92-93: the link was captured before
SkipVisited ==
    \E parent_link \in pending :
        /\ Yield(parent_link)
        /\ AlreadyCaptured(parent_link)
        /\ UNCHANGED <<config, standalone, unique_links_set, depth, parent_level_links,
                       child_level_links, pc, error, fetch_log, frontiers, files, sink>>

\* lines 94-96: session.get raises (timeout, DNS, connection reset)
FetchRaises ==
    \E parent_link \in pending :
        /\ Yield(parent_link)
        /\ ~AlreadyCaptured(parent_link)
        /\ unique_links_set' = unique_links_set \cup {parent_link}
        /\ fetch_log' = Fetched(parent_link, TRUE, NoResponse, NotCleaned)
        /\ pc' = PcAfterRaise
        /\ error' = "TransportFailure"
        /\ UNCHANGED <<config, standalone, depth, parent_level_links, child_level_links,
                       frontiers, files, sink>>

\* lines 94-98: the status code is not 200
FetchNot200 ==
    \E parent_link \in pending :
        /\ Yield(parent_link)
        /\ ~AlreadyCaptured(parent_link)
        /\ \E site_request \in ResponsesOf(parent_link) :
             /\ ~IsOK(site_request)
             /\ fetch_log' = Fetched(parent_link, FALSE, site_request, NotCleaned)
        /\ unique_links_set' = unique_links_set \cup {parent_link}
        /\ UNCHANGED <<config, standalone, depth, parent_level_links, child_level_links,
                       pc, error, frontiers, files, sink>>

\* lines 94-106: status 200 for a link that ends in xlsx or xls
SkipSpreadsheet ==
    \E parent_link \in pending :
        /\ Yield(parent_link)
        /\ ~AlreadyCaptured(parent_link)
        /\ IsSpreadsheet(parent_link)
        /\ \E site_request \in ResponsesOf(parent_link) :
             /\ IsOK(site_request)
             /\ fetch_log' = Fetched(parent_link, FALSE, site_request, NotCleaned)
        /\ unique_links_set' = unique_links_set \cup {parent_link}
        /\ UNCHANGED <<config, standalone, depth, parent_level_links, child_level_links,
                       pc, error, frontiers, files, sink>>

\* lines 94-119: status 200, the page is saved, its links cleaned and indexed
ProcessPage ==
    \E parent_link \in pending :
        /\ Yield(parent_link)
        /\ ~AlreadyCaptured(parent_link)
        /\ ~IsSpreadsheet(parent_link)
        /\ unique_links_set' = unique_links_set \cup {parent_link}
        /\ \E site_request \in ResponsesOf(parent_link) :
             LET raw_child_links == get_all_links_from_page(site_request)
                 cleaned_child_links == clean_webpage_links(raw_child_links, filter_word_list)
             IN  /\ IsOK(site_request)
                 /\ ~cleaned_child_links.raised
                 /\ fetch_log' = Fetched(parent_link, FALSE, site_request,
                                          Cleaned(cleaned_child_links))
                 /\ files' = SaveRawFile(parent_link, site_request)
                 /\ child_level_links' = child_level_links \cup cleaned_child_links.value
                 /\ sink' = IndexEdges(parent_link,
                                       EdgeChildren(child_level_links',
                                                    cleaned_child_links.value))
        /\ UNCHANGED <<config, standalone, depth, parent_level_links, pc, error, frontiers>>

\* lines 94-112: status 200, the page is saved, then clean_webpage_links raises
CleanRaises ==
    \E parent_link \in pending :
        /\ Yield(parent_link)
        /\ ~AlreadyCaptured(parent_link)
        /\ ~IsSpreadsheet(parent_link)
        /\ unique_links_set' = unique_links_set \cup {parent_link}
        /\ \E site_request \in ResponsesOf(parent_link) :
             LET raw_child_links == get_all_links_from_page(site_request)
                 cleaned_child_links == clean_webpage_links(raw_child_links, filter_word_list)
             IN  /\ IsOK(site_request)
                 /\ cleaned_child_links.raised
                 /\ fetch_log' = Fetched(parent_link, FALSE, site_request,
                                          Cleaned(cleaned_child_links))
                 /\ files' = SaveRawFile(parent_link, site_request)
        /\ pc' = "error"
        /\ error' = "TypeError"
        /\ UNCHANGED <<config, standalone, depth, parent_level_links, child_level_links,
                       frontiers, sink>>

(***************************************************************************)
(* run_spider, lines 121-126: after the loops                              *)
(***************************************************************************)
\* the engine is disposed of before the upload
DisposeThenUploadUnique(unique_links_df) ==
    upload_data_to_sql(dispose(sink), unique_links_df, "unique_links", <<>>)

\* lines 124-126: upload the unique links, then dispose of the engine
UploadUniqueThenDispose(unique_links_df) ==
    dispose(upload_data_to_sql(sink, unique_links_df, "unique_links", <<>>))

\* indexing on: upload the unique links, then dispose of the engine
FinishIndexed ==
    /\ pc = "finish"
    /\ indexing_on
    /\ \E unique_links_df \in create_unique_links_df :
         sink' = UploadUniqueThenDispose(unique_links_df)
    /\ pc' = "done"
    /\ UNCHANGED <<config, standalone, unique_links_set, depth, parent_level_links,
                   child_level_links, pending, error, fetch_log, frontiers, files>>

\* indexing off: self.indexing_definitions_obj was never bound, line 126 raises
FinishNotIndexed ==
    /\ pc = "finish"
    /\ ~indexing_on
    /\ pc' = "error"
    /\ error' = "AttributeError"
    /\ UNCHANGED <<config, standalone, unique_links_set, depth, parent_level_links,
                   child_level_links, pending, fetch_log, frontiers, files, sink>>

Next ==
    \/ EnterDepth
    \/ ExitDepthLoop
    \/ EndOfFrontier
    \/ SkipVisited
    \/ FetchRaises
    \/ FetchNot200
    \/ SkipSpreadsheet
    \/ ProcessPage
    \/ CleanRaises
    \/ FinishIndexed
    \/ FinishNotIndexed

Spec == Init /\ [][Next]_vars

\* run_spider is one thread of control: as long as a next statement exists
\* it is executed
SpecLive == Spec /\ WF_vars(Next)

(***************************************************************************)
(* clean_webpage_links called on its own, on every short list of           *)
(* candidates and every short deny-list.                                   *)
(***************************************************************************)
FilterCandidates ==
    {None, Slash, <<>>, <<"a">>, <<"a","b">>, <<"b","a">>, <<"/","a">>}

DenyWords == {<<"a">>, <<"b">>, <<"a","b">>}

FilterInit ==
    /\ links_list \in SeqsUpTo(FilterCandidates, MaxListLen)
    /\ filter_word_list \in SeqsUpTo(DenyWords, MaxDenyLen)
    /\ clean_result = NoResult
    /\ ConstructionIdle
    /\ pc = "clean_call"
    /\ root_site = RootSite
    /\ pen_depth = 1
    /\ indexing_on = FALSE
    /\ unique_links_set = {}
    /\ depth = NoDepth
    /\ parent_level_links = {}
    /\ child_level_links = {}
    /\ pending = {}
    /\ error = NoError
    /\ fetch_log = <<>>
    /\ frontiers = <<>>
    /\ files = <<>>
    /\ sink = <<>>

CleanReturns ==
    /\ pc = "clean_call"
    /\ ~clean_webpage_links(links_list, filter_word_list).raised
    /\ clean_result' = clean_webpage_links(links_list, filter_word_list)
    /\ pc' = "clean_done"
    /\ UNCHANGED <<config, construction, links_list, unique_links_set, depth, parent_level_links,
                   child_level_links, pending, error, fetch_log, frontiers, files, sink>>

CleanRaisesTypeError ==
    /\ pc = "clean_call"
    /\ clean_webpage_links(links_list, filter_word_list).raised
    /\ clean_result' = clean_webpage_links(links_list, filter_word_list)
    /\ pc' = "clean_done"
    /\ error' = "TypeError"
    /\ UNCHANGED <<config, construction, links_list, unique_links_set, depth, parent_level_links,
                   child_level_links, pending, fetch_log, frontiers, files, sink>>

FilterNext == CleanReturns \/ CleanRaisesTypeError

SpecFilter == FilterInit /\ [][FilterNext]_vars

(***************************************************************************)
(* ContentPersister on its own: pages are persisted under one root and one *)
(* directory, as successive runs of the spider do (lines 100-108).         *)
(***************************************************************************)
PersistLinks == {RootSite, LinkLogin, LinkPdf}

PersistInit ==
    /\ root_site = RootSite
    /\ files = <<>>
    /\ saved_calls = <<>>
    /\ pc = "persist"
    /\ pen_depth = 1
    /\ indexing_on = FALSE
    /\ filter_word_list = bind_filter_word_list
    /\ unique_links_set = {}
    /\ depth = NoDepth
    /\ parent_level_links = {}
    /\ child_level_links = {}
    /\ pending = {}
    /\ error = NoError
    /\ fetch_log = <<>>
    /\ frontiers = <<>>
    /\ sink = <<>>
    /\ links_list = <<>>
    /\ clean_result = NoResult
    /\ setup_kwargs = <<>>
    /\ sql_setup_obj = <<>>
    /\ spider_arg = "none"

PersistPage ==
    /\ pc = "persist"
    /\ Len(saved_calls) < MaxPersists
    /\ \E web_url \in PersistLinks :
         \E site_request \in Responses :
             /\ IsOK(site_request)
             /\ ~IsSpreadsheet(web_url)
             /\ files' = SaveRawFile(web_url, site_request)
             /\ saved_calls' = Append(saved_calls, [web_url |-> web_url,
                                                    request |-> site_request])
    /\ UNCHANGED <<config, unique_links_set, depth, parent_level_links,
                   child_level_links, pending, pc, error, fetch_log, frontiers, sink,
                   links_list, clean_result, setup_kwargs, sql_setup_obj, spider_arg>>

PersistNext == PersistPage

SpecPersist == PersistInit /\ [][PersistNext]_vars

(***************************************************************************)
(* Construction: SpiderIndexSQLSetup with keyword arguments, of         *)
(* spider_indexing_dataclass.py, then WebSpider(..., obj) (lines 41-82).   *)
(* An instance is the function from its attribute names to their values.   *)
(***************************************************************************)
property_defaults ==
    [sql_engine_str          |-> "postgresql+psycopg2",
     host                    |-> "localhost",
     database                |-> "web_spider_data",
     user                    |-> "postgres",
     password                |-> "postgres",
     port                    |-> "5432",
     db_index_schema         |-> "raw",
     db_index_table_name     |-> "indexing",
     unique_links_schema     |-> "raw",
     unique_links_table_name |-> "unique_links"]

PropertyNames == DOMAIN property_defaults

\* the value a caller passes for a property it overrides
CustomValue == "custom"

\* the names bound in the body of class SpiderIndexSQLSetup; the def of
\* bind_sql_engine starts at column 0, after the class body has ended
ClassAttributes == {"__init__"}

\* self.<name> resolves on the instance, then on its class
HasAttribute(obj, name) == name \in (DOMAIN obj \cup ClassAttributes)

\* the module-level function bind_sql_engine(self)
bind_sql_engine(self) ==
    [a \in DOMAIN self \cup {"sql_engine"} |->
        IF a = "sql_engine"
        THEN <<self.sql_engine_str, self.user, self.password,
               self.host, self.port, self.database>>
        ELSE self[a]]

SetupInit ==
    /\ spider_arg \in {"setup", "none", "other"}
    /\ setup_kwargs \in UNION {[S -> {CustomValue}] : S \in SUBSET PropertyNames}
    /\ spider_arg # "setup" => DOMAIN setup_kwargs = {}
    /\ sql_setup_obj = <<>>
    /\ pc = "construct"
    /\ error = NoError
    /\ root_site = RootSite
    /\ pen_depth = 1
    /\ indexing_on = FALSE
    /\ filter_word_list = <<>>
    /\ unique_links_set = {}
    /\ depth = NoDepth
    /\ parent_level_links = {}
    /\ child_level_links = {}
    /\ pending = {}
    /\ fetch_log = <<>>
    /\ frontiers = <<>>
    /\ files = <<>>
    /\ sink = <<>>
    /\ links_list = <<>>
    /\ clean_result = NoResult
    /\ saved_calls = <<>>

\* SpiderIndexSQLSetup.__init__, lines 9-22: one attribute per property
SetAttributes ==
    /\ pc = "construct"
    /\ spider_arg = "setup"
    /\ sql_setup_obj' = [prop \in PropertyNames |->
                            IF prop \in DOMAIN setup_kwargs
                            THEN setup_kwargs[prop]
                            ELSE property_defaults[prop]]
    /\ pc' = "bind_sql_engine"
    /\ UNCHANGED <<config, unique_links_set, depth, parent_level_links,
                   child_level_links, pending, error, fetch_log, frontiers, files,
                   sink, links_list, clean_result, saved_calls, setup_kwargs,
                   spider_arg>>

\* SpiderIndexSQLSetup.__init__, line 23: self.bind_sql_engine()
CallBindSqlEngine ==
    /\ pc = "bind_sql_engine"
    /\ IF HasAttribute(sql_setup_obj, "bind_sql_engine")
       THEN /\ sql_setup_obj' = bind_sql_engine(sql_setup_obj)
            /\ pc' = "spider_init"
            /\ error' = error
       ELSE /\ sql_setup_obj' = sql_setup_obj
            /\ pc' = "error"
            /\ error' = "AttributeError"
    /\ UNCHANGED <<config, unique_links_set, depth, parent_level_links,
                   child_level_links, pending, fetch_log, frontiers, files,
                   sink, links_list, clean_result, saved_calls, setup_kwargs,
                   spider_arg>>

\* WebSpider.__init__, lines 65-82
WebSpiderInit ==
    /\ \/ pc = "spider_init"
       \/ pc = "construct" /\ spider_arg # "setup"
    /\ IF spider_arg = "none"
       THEN /\ indexing_on' = FALSE
            /\ unique_links_set' = {}
            /\ filter_word_list' = bind_filter_word_list
            /\ pc' = "constructed"
            /\ error' = error
       ELSE IF spider_arg = "setup"
       THEN /\ indexing_on' = TRUE
            /\ unique_links_set' = {}
            /\ filter_word_list' = bind_filter_word_list
            /\ pc' = "constructed"
            /\ error' = error
       ELSE /\ pc' = "error"
            /\ error' = "ValueError"
            /\ UNCHANGED <<indexing_on, unique_links_set, filter_word_list>>
    /\ UNCHANGED <<root_site, pen_depth, depth, parent_level_links,
                   child_level_links, pending, fetch_log, frontiers, files,
                   sink, links_list, clean_result, saved_calls, setup_kwargs,
                   sql_setup_obj, spider_arg>>

SetupNext ==
    \/ SetAttributes
    \/ CallBindSqlEngine
    \/ WebSpiderInit

SpecSetup == SetupInit /\ [][SetupNext]_vars

(***************************************************************************)
(* What the log of GETs says about a run.                                  *)
(***************************************************************************)
LogEntries == Range(fetch_log)

\* the iteration of this GET got as far as line 113
Processed(e) == e.cleaned.reached /\ ~e.cleaned.raised

\* the filtered child links of the page this GET returned
ChildrenOf(e) == e.cleaned.value

ProcessedAt(d) == {e \in LogEntries : e.depth = d /\ Processed(e)}

FetchCount(l) == Cardinality({i \in DOMAIN fetch_log : fetch_log[i].link = l})

\* every distinct link the run has come across
Encountered ==
    {root_site} \cup UNION {ChildrenOf(e) : e \in {x \in LogEntries : Processed(x)}}

ParentsListing(l) == {e \in LogEntries : Processed(e) /\ l \in ChildrenOf(e)}

FrontiersHolding(l) == {k \in DOMAIN frontiers : l \in frontiers[k]}

\* links within k filtered-child steps of the root, over the pages fetched
RECURSIVE ReachWithin(_)
ReachWithin(k) ==
    IF k <= 0 THEN {root_site}
    ELSE LET near == ReachWithin(k - 1)
         IN  near \cup UNION {ChildrenOf(e) : e \in {x \in LogEntries :
                                                       Processed(x) /\ x.link \in near}}

RunEnded == pc \in {"done", "error"}

(***************************************************************************)
(* Claims.                                                                 *)
(***************************************************************************)

\* C1: no link is fetched more than once in a run, however many parents list
\* it and in however many frontiers it appears, and the visited set holds
\* only links the run has encountered (so it is never larger than their
\* number).
C1_FetchedAtMostOnce ==
    /\ \A l \in Encountered \cup unique_links_set : FetchCount(l) <= 1
    /\ \A i \in DOMAIN fetch_log : FetchCount(fetch_log[i].link) = 1
    /\ unique_links_set \subseteq Encountered
    /\ Cardinality(unique_links_set) <= Cardinality(Encountered)

\* a link listed by two parents and a link held by two frontiers, each
\* fetched once, at the end of the last depth
C1_Witness ==
    /\ pc = "finish"
    /\ \E l \in unique_links_set :
         FetchCount(l) = 1 /\ Cardinality(ParentsListing(l)) >= 2
    /\ \E l \in unique_links_set :
         FetchCount(l) = 1 /\ Cardinality(FrontiersHolding(l)) >= 2

\* C2: the frontier of depth 0 is {root}; the frontier of depth d+1 is
\* exactly the union of the filtered child sets of the links processed at
\* depth d; there are at most pen_depth frontiers.
C2_FrontierIsChildrenOfPreviousDepth ==
    /\ Len(frontiers) <= pen_depth
    /\ frontiers # <<>> => frontiers[1] = {root_site}
    /\ \A k \in DOMAIN frontiers :
         k >= 2 => frontiers[k] = UNION {ChildrenOf(e) : e \in ProcessedAt(k - 2)}
    /\ pc = "for_link" => /\ parent_level_links = frontiers[Len(frontiers)]
                          /\ Len(frontiers) = depth + 1

\* a third frontier fed by two processed parents of the second
C2_Witness ==
    /\ Len(frontiers) = 3
    /\ Cardinality(ProcessedAt(1)) = 2
    /\ Cardinality(frontiers[3]) >= 3

\* C3: pen_depth counts levels with the root included: with pen_depth = 1
\* the only fetch is the root's, every fetch happens at a depth below
\* pen_depth for a link within pen_depth - 1 filtered-child steps of the
\* root, and a link first discovered at the last depth is neither fetched
\* nor visited.
C3_PenDepthCountsLevelsRootIncluded ==
    /\ pen_depth = 1 =>
         /\ \A e \in LogEntries : e.link = root_site
         /\ Len(fetch_log) <= 1
         /\ pc \in {"finish", "done"} => Len(fetch_log) = 1
    /\ \A e \in LogEntries :
         /\ e.depth <= pen_depth - 1
         /\ e.link \in ReachWithin(e.depth)
    /\ unique_links_set \subseteq ReachWithin(pen_depth - 1)
    /\ depth = pen_depth - 1 =>
         \A l \in child_level_links \ UNION Range(frontiers) :
             l \notin unique_links_set /\ FetchCount(l) = 0

\* a run of pen_depth 2 ends with links discovered at depth 1 left unfetched
C3_Witness ==
    /\ pen_depth = 2
    /\ pc = "finish"
    /\ Len(fetch_log) = 3
    /\ child_level_links \ UNION Range(frontiers) # {}

ContainsFilterWord(l) ==
    \E j \in DOMAIN filter_word_list : Contains(l, filter_word_list[j])

ContainsEveryWord(l) ==
    \A j \in DOMAIN filter_word_list : Contains(l, filter_word_list[j])

\* C4: no link returned by clean_webpage_links contains a word of the
\* filter word list, and the spider never fetches a link other than the
\* root that contains one.
C4_NoFilterWordSurvives ==
    /\ \A e \in LogEntries : \A l \in ChildrenOf(e) : ~ContainsFilterWord(l)
    /\ \A e \in LogEntries : e.link # root_site => ~ContainsFilterWord(e.link)

CleanDone == pc = "clean_done"

C6_NoneEmptyAndSlashDropped ==
    CleanDone =>
        /\ ~clean_result.raised
        /\ clean_result.value \cap {None, <<>>, Slash} = {}

LoopsLeft == pc \in {"finish", "done", "error"} /\ error \notin {"TransportFailure", "TypeError"}

\* C7: a run with indexing off that gets through all its depths ends
\* normally, without an error.
C7_RunWithoutIndexingCompletes ==
    (~indexing_on /\ LoopsLeft) => pc # "error"

\* C8: with indexing off no call reaches the SQL engine: no edge upload, no
\* unique-links upload, no dispose.
C8_NoSinkCallWithoutIndexing ==
    ~indexing_on => sink = <<>>

\* a run with indexing off is over after pages with child links were
\* processed at two depths
C8_Witness ==
    /\ ~indexing_on
    /\ RunEnded
    /\ \E e \in ProcessedAt(0) : ChildrenOf(e) # {}
    /\ \E e \in ProcessedAt(1) : ChildrenOf(e) # {}

RootNot200 ==
    /\ fetch_log # <<>>
    /\ fetch_log[1].link = root_site
    /\ ~fetch_log[1].raised
    /\ fetch_log[1].response.status_code # StatusOK

\* C9: when the GET of the root answers with a status other than 200, every
\* later frontier is empty, the run issues that one GET only, and it ends
\* without an error.
C9_RootNot200EndsRunCleanly ==
    RootNot200 =>
        /\ Len(fetch_log) = 1
        /\ \A k \in DOMAIN frontiers : k >= 2 => frontiers[k] = {}
        /\ pc # "error"

\* C10: every edge uploaded while the loop is at depth d carries d in its
\* depth column.
C10_EdgeCarriesLoopDepth ==
    \A i \in DOMAIN sink :
        sink[i].op = "index" => \A row \in sink[i].rows : row[1] = sink[i].depth

IndexCalls == {i \in DOMAIN sink : sink[i].op = "index"}

\* the child links of an uploaded edge batch
BatchChildren(i) == {row[3] : row \in sink[i].rows}

\* the filtered child links extracted from the page fetched for link l
OwnChildren(l) == UNION {ChildrenOf(e) : e \in {x \in LogEntries : x.link = l}}

\* C11: every edge handed to the sink is a link of its parent's page: the
\* child is in the filtered child set extracted from the page fetched for
\* the parent.
C11_EdgeIsLinkOfParentPage ==
    \A i \in IndexCalls :
        \A row \in sink[i].rows : row[3] \in OwnChildren(row[2])

\* the link is a filtered child of two parents processed at depth d
SharedAt(l, d) == Cardinality({e \in ProcessedAt(d) : l \in ChildrenOf(e)}) >= 2

FetchDepths(l) == {e.depth : e \in {x \in LogEntries : x.link = l}}

\* the inner loop of depth k has yielded its whole frontier
DepthFinished(k) ==
    \/ depth > k
    \/ /\ depth = k
       /\ \/ pc \in {"for_depth", "finish", "done"}
          \/ pc = "error" /\ error = "AttributeError"

\* the edges from parent p to child l over all uploaded batches
EdgesBetween(p, l) == {i \in IndexCalls : sink[i].parent = p /\ l \in BatchChildren(i)}

SharedLinks(d) == {l \in UNION {ChildrenOf(e) : e \in ProcessedAt(d)} : SharedAt(l, d)}

\* C12 as claimed: a link that is a filtered child of two parents of one
\* depth is fetched exactly once, at the next depth, and each parent has at
\* most one edge to it.
C12_SharedChildFetchedOnceAtNextDepth ==
    \A d \in 0..(pen_depth - 2) :
        \A l \in SharedLinks(d) :
            /\ DepthFinished(d + 1) => FetchCount(l) = 1 /\ FetchDepths(l) = {d + 1}
            /\ \A e \in LogEntries : Cardinality(EdgesBetween(e.link, l)) <= 1

\* C12 as amended: such a link is fetched exactly once in the run, at the
\* next depth or at an earlier one where it was first in a frontier, and
\* each parent has at most one edge to it.
C12_SharedChildFetchedOnce ==
    \A d \in 0..(pen_depth - 2) :
        \A l \in SharedLinks(d) :
            /\ DepthFinished(d + 1) =>
                 /\ FetchCount(l) = 1
                 /\ \A fd \in FetchDepths(l) : fd <= d + 1
                 /\ (\A k \in 1..(d + 1) : l \notin frontiers[k])
                        => FetchDepths(l) = {d + 1}
            /\ \A e \in LogEntries : Cardinality(EdgesBetween(e.link, l)) <= 1

\* two parents of depth 1 share a link that is fetched once at depth 2, and
\* an edge to the root, visited since depth 0, was uploaded
C12_Witness ==
    /\ pc = "finish"
    /\ indexing_on
    /\ \E l \in SharedLinks(1) : FetchCount(l) = 1 /\ FetchDepths(l) = {2}
    /\ \E i \in IndexCalls : root_site \in BatchChildren(i)

\* C13: in a run with indexing on that gets through all its depths the
\* unique-links batch is uploaded exactly once, after the last edge batch,
\* the engine is then disposed of exactly once, and nothing follows; until
\* then the engine has seen edge batches only.
C13_UniqueLinksThenDisposeAtEnd ==
    /\ pc # "done" => \A i \in DOMAIN sink : sink[i].op = "index"
    /\ (indexing_on /\ pc = "done") =>
         /\ Len(sink) >= 2
         /\ sink[Len(sink)].op = "dispose"
         /\ sink[Len(sink) - 1].op = "unique_links"
         /\ \A i \in 1..(Len(sink) - 2) : sink[i].op = "index"
    /\ pc = "done" => indexing_on

\* a finished run that uploaded edge batches at two depths
C13_Witness ==
    /\ pc = "done"
    /\ \E i, j \in IndexCalls : sink[i].depth = 0 /\ sink[j].depth = 1

\* the file system after the page of call c is persisted once, from empty
PersistedOnce(c) ==
    IF EndsWith(Lower(c.web_url), <<"p","d","f">>)
    THEN save_webpage_as_pdf(<<>>, c.web_url, c.request)
    ELSE save_webpage_as_text(<<>>, c.web_url, c.request)

\* C14: persisting the same page for the same (root, link) twice targets
\* one file and leaves it with the content one persist gives, for text
\* pages and for PDFs.
C14_PersistTwiceEqualsPersistOnce ==
    (Len(saved_calls) = 2 /\ saved_calls[1] = saved_calls[2]) =>
        /\ Cardinality(DOMAIN files) = 1
        /\ files = PersistedOnce(saved_calls[1])

\* construction has run to its end, normally or by an exception
ConstructionEnded == pc \in {"constructed", "error"}

\* C16: SpiderIndexSQLSetup() with default arguments succeeds with its SQL
\* engine bound, and WebSpider(..., that object) succeeds with indexing on.
C16_DefaultSetupGivesIndexingSpider ==
    (spider_arg = "setup" /\ DOMAIN setup_kwargs = {} /\ ConstructionEnded) =>
        /\ pc = "constructed"
        /\ error = NoError
        /\ "sql_engine" \in DOMAIN sql_setup_obj
        /\ indexing_on

\* the crawl of ExampleSite, once the GET of its root has been answered
ExampleRootAnswered ==
    /\ root_site = ExampleSite
    /\ pen_depth = 2
    /\ filter_word_list = ExampleFilterWords
    /\ fetch_log # <<>>
    /\ fetch_log[1].link = ExampleSite
    /\ ~fetch_log[1].raised
    /\ fetch_log[1].response.hrefs = ExampleHrefs

FetchStep == Len(fetch_log') = Len(fetch_log) + 1

\* the entry this step appends
NewEntry == fetch_log'[Len(fetch_log')]

Not200Step ==
    /\ FetchStep
    /\ ~NewEntry.raised
    /\ NewEntry.response.status_code # StatusOK

\* C17: a GET answered with a status other than 200 only adds the link to
\* the visited set: child set, frontiers, files and edges stay as they were,
\* the loop goes on with the next link of the frontier, and as the visited
\* set never shrinks and only unvisited links are fetched, the link is never
\* fetched again.
C17_Not200OnlyMarksVisited ==
    [][ /\ Not200Step =>
            /\ unique_links_set' = unique_links_set \cup {NewEntry.link}
            /\ pending' = pending \ {NewEntry.link}
            /\ pc = "for_link" /\ pc' = "for_link"
            /\ UNCHANGED <<config, depth, parent_level_links, child_level_links,
                           frontiers, files, sink, error>>
        /\ FetchStep => NewEntry.link \notin unique_links_set
        /\ unique_links_set \subseteq unique_links_set'
      ]_vars

C17_Witness ==
    \E i \in DOMAIN fetch_log :
        /\ ~fetch_log[i].raised
        /\ fetch_log[i].response.status_code # StatusOK
        /\ i < Len(fetch_log)
        /\ fetch_log[i + 1].depth = fetch_log[i].depth
        /\ Processed(fetch_log[i + 1])
        /\ files # <<>>
        /\ sink # <<>>

RaisedStep == FetchStep /\ NewEntry.raised

\* the run was aborted by an exception of the GET
TransportAborted == \E i \in DOMAIN fetch_log : fetch_log[i].raised

\* C18: an exception raised by the GET is not caught.  The step that raises
\* writes no file and uploads nothing, the run is over with it (no step
\* follows: no fetch, no retry, no persist, no upload), and the sink has
\* received neither the unique links nor the dispose of the connection.
C18_TransportFailureAbortsRun ==
    /\ [](TransportAborted =>
            /\ pc = "error"
            /\ error = "TransportFailure"
            /\ fetch_log[Len(fetch_log)].raised
            /\ \A i \in 1..(Len(fetch_log) - 1) : ~fetch_log[i].raised
            /\ FetchCount(fetch_log[Len(fetch_log)].link) = 1
            /\ \A i \in DOMAIN sink : sink[i].op = "index")
    /\ [][ /\ RaisedStep =>
               /\ pc' = "error"
               /\ UNCHANGED <<files, sink, child_level_links, frontiers>>
           /\ ~TransportAborted
         ]_vars

C18_Witness ==
    /\ TransportAborted
    /\ indexing_on
    /\ Len(fetch_log) >= 3
    /\ sink # <<>>
    /\ pending # {}

\* the child links accumulated at depth d by the pages processed up to
\* and including log entry j
AccumulatedUpTo(d, j) ==
    UNION {ChildrenOf(fetch_log[m]) :
             m \in {x \in 1..j : fetch_log[x].depth = d /\ Processed(fetch_log[x])}}

\* the log entries of the page for which edge batch i was emitted
EmittedFor(i) ==
    {j \in DOMAIN fetch_log :
        /\ fetch_log[j].link = sink[i].parent
        /\ fetch_log[j].depth = sink[i].depth
        /\ Processed(fetch_log[j])}

\* this step hands an edge batch to the sink
EdgeUploadStep == Len(sink') = Len(sink) + 1 /\ sink'[Len(sink')].op = "index"

UniqueLinksCalls == {i \in DOMAIN sink : sink[i].op = "unique_links"}

\* C20: the unique-links batch has one record per visited link and no other
\* record, its ids are exactly 0..n-1, each used once, and every link a GET
\* was made for is in it, whatever status the GET returned.
C20_UniqueLinksBatchEnumeratesVisited ==
    /\ (indexing_on /\ pc = "done") => Cardinality(UniqueLinksCalls) = 1
    /\ \A c \in UniqueLinksCalls :
         LET rows == sink[c].rows
             n == Cardinality(unique_links_set)
         IN  /\ Cardinality(rows) = n
             /\ {r[2] : r \in rows} = unique_links_set
             /\ {r[1] : r \in rows} = 0..(n - 1)
             /\ \A e \in LogEntries : \E r \in rows : r[2] = e.link

C20_Witness ==
    /\ pc = "done"
    /\ \E c \in UniqueLinksCalls :
         /\ Cardinality(sink[c].rows) >= 3
         /\ \E e \in LogEntries :
              /\ ~e.raised
              /\ e.response.status_code # StatusOK
              /\ \E r \in sink[c].rows : r[2] = e.link /\ r[1] > 0

\* the file save_webpage_as_pdf / save_webpage_as_text opens for link l
PdfPath(l) ==
    SavePath \o generate_output_file_name(l, <<"p","d","f">>) \o <<".","p","d","f">>
TxtPath(l) ==
    SavePath \o generate_output_file_name(l, <<"t","x","t">>) \o <<".","t","x","t">>

EndsInPdf(l) == EndsWith(Lower(l), <<"p","d","f">>)
EndsInXls(l) ==
    EndsWith(Lower(l), <<"x","l","s">>) \/ EndsWith(Lower(l), <<"x","l","s","x">>)

\* the GETs of this run that were answered with status 200
Answered200 ==
    {e \in LogEntries : ~e.raised /\ e.response.status_code = StatusOK}

\* C21: in one run every link fetched with status 200 that does not end in
\* xls/xlsx has been persisted exactly once, as PDF if it ends in pdf and as
\* text otherwise, also when the extraction of its children then fails; a
\* link ending in xls/xlsx has no file, no extracted children and no edge
\* batch, and nothing else is persisted.
C21_PersistedOnceUnlessSpreadsheet ==
    /\ [](/\ \A e \in Answered200 :
                IF EndsInPdf(e.link)
                THEN /\ PdfPath(e.link) \in DOMAIN files
                     /\ TxtPath(e.link) \notin DOMAIN files
                     /\ files[PdfPath(e.link)] =
                            <<[header |-> <<>>, body |-> e.response.hrefs]>>
                ELSE IF EndsInXls(e.link)
                THEN /\ PdfPath(e.link) \notin DOMAIN files
                     /\ TxtPath(e.link) \notin DOMAIN files
                     /\ ~e.cleaned.reached
                     /\ \A i \in IndexCalls : sink[i].parent # e.link
                ELSE /\ TxtPath(e.link) \in DOMAIN files
                     /\ PdfPath(e.link) \notin DOMAIN files
                     /\ files[TxtPath(e.link)] =
                            <<[header |-> <<root_site, e.link>>,
                               body |-> e.response.hrefs]>>
          /\ Cardinality(DOMAIN files) =
                Cardinality({e.link : e \in {x \in Answered200 : ~EndsInXls(x.link)
                                                                  \/ EndsInPdf(x.link)}}))
    /\ [][ (FetchStep /\ ~NewEntry.raised /\ EndsInXls(NewEntry.link)
                      /\ ~EndsInPdf(NewEntry.link)) =>
               UNCHANGED <<files, sink, child_level_links, frontiers, pc>>
         ]_vars

C21_Witness ==
    /\ \E e \in Answered200 : EndsInPdf(e.link) /\ Processed(e)
    /\ \E e \in Answered200 : EndsInXls(e.link)
    /\ \E e \in Answered200 : ~EndsInPdf(e.link) /\ ~EndsInXls(e.link) /\ e.link # root_site
    /\ Cardinality(DOMAIN files) = 3
    /\ indexing_on

\* C22: when no GET raises, the run reaches its terminal state having bound
\* the frontiers of the depths 0..pen_depth-1, in increasing order, and the
\* depth counter stays within 0..pen_depth-1.
C22_RunTerminatesAfterAllDepths ==
    /\ [](depth # NoDepth => (0 <= depth /\ depth < pen_depth))
    /\ [][depth' # depth => depth' = (IF depth = NoDepth THEN 0 ELSE depth + 1)]_vars
    /\ <>(TransportAborted \/ (pc = "done" /\ Len(frontiers) = pen_depth))

====
